---- MODULE Spec2Model ----
(***************************************************************************)
(* Frame driver of the Willard-Chandler instantaneous-interface notebook   *)
(* (example.ipynb): the cell that loops over the trajectory frames,        *)
(* extracting the two surfaces and accumulating the profiles, and the cell *)
(* that normalizes the accumulated profiles.  The functions imported from  *)
(* WCIS_functions (initialize, find_isosurfaces, calc_profiles) are        *)
(* modelled from the specification of the components they implement.       *)
(***************************************************************************)
EXTENDS Integers, Sequences, FiniteSets, TLC

VARIABLES
    traj,       \* the trajectory file: one frame kind per frame
    nskip,      \* the nskip argument of initialize
    params,     \* the dict returned by initialize, mutated by calc_profiles
    upperS,     \* list of upper surfaces
    lowerS,     \* list of lower surfaces
    cnt,        \* frame counter
    nextI,      \* position of the range iterator of the for loop
    i,          \* loop variable
    frame,      \* frame loaded in the current iteration
    upper,      \* result of find_isosurfaces, upper side
    lower,      \* result of find_isosurfaces, lower side
    pc,         \* statement the notebook is about to execute
    loopExit,   \* how the loop cell ended: running, completed, raised, interrupted
    log         \* history of the calls made to the collaborators

vars == <<traj, nskip, params, upperS, lowerS, cnt, nextI, i, frame, upper,
          lower, pc, loopExit, log>>

\* ------------------------------------------------------------------ bounds

MaxFrames == 3
MaxSkip == 1

\* ------------------------------------------------------- data of the model

Species == {"O", "NA", "S1 C2 N3"}

SurfaceSpecies == "O"

Sides == {"upper", "lower"}

BinEdges == <<0, 2, 4>>

Bins == 1..(Len(BinEdges) - 1)

FrameKinds == {"a", "b", "e"}

\* The atoms of a frame: species, height z in the box, cosine of the bond
\* vector to the surface normal.
AtomsOf(kind) ==
    CASE kind = "a" -> << [sp |-> "O", z |-> 2, cos |-> 0],
                          [sp |-> "O", z |-> 8, cos |-> 0],
                          [sp |-> "S1 C2 N3", z |-> 7, cos |-> 1],
                          [sp |-> "S1 C2 N3", z |-> 7, cos |-> 1],
                          [sp |-> "NA", z |-> 3, cos |-> 1] >>
      [] kind = "b" -> << [sp |-> "O", z |-> 3, cos |-> 1],
                          [sp |-> "O", z |-> 7, cos |-> 0],
                          [sp |-> "S1 C2 N3", z |-> 5, cos |-> 0],
                          [sp |-> "S1 C2 N3", z |-> 8, cos |-> -1],
                          [sp |-> "NA", z |-> 7, cos |-> -1] >>
      [] OTHER      -> << [sp |-> "NA", z |-> 5, cos |-> 1] >>

NoFrame == [index |-> -1, atoms |-> <<>>]

NoSurface == <<>>

\* ------------------------------------------------------------ numpy arrays

\* An array of one value per bin.  Its entries are the rationals
\* vals[b] / (product of divs): divs lists the in-place divisions applied.
ZeroArr == [vals |-> [b \in Bins |-> 0], divs |-> <<>>]

AddArr(A, h) == [A EXCEPT !.vals = [b \in Bins |-> @[b] + h[b]]]

DivArr(A, d) == [A EXCEPT !.divs = Append(@, d)]

RECURSIVE Prod(_)
Prod(s) == IF s = <<>> THEN 1 ELSE Head(s) * Prod(Tail(s))

\* -------------------------------------------------------------- initialize

\* initialize(filename, top, mesh, alpha, molecules, nskip, layers)
Initialize(file, skip, orient) ==
    [n_frames |-> Len(file) - skip,
     data |-> [s \in Species |->
                 [side \in Sides |->
                    IF s \in orient
                    THEN [type |-> "dict", conc |-> ZeroArr, cosine |-> ZeroArr]
                    ELSE [type |-> "ndarray", arr |-> ZeroArr]]]]

\* md.load_frame(filename, index=i, top=top)
LoadFrame(file, index) == [index |-> index, atoms |-> AtomsOf(file[index + 1])]

\* -------------------------------------------------------- find_isosurfaces

SurfaceAtoms(fr) ==
    {k \in 1..Len(fr.atoms) : fr.atoms[k].sp = SurfaceSpecies}

HasCrossing(fr) == SurfaceAtoms(fr) # {}

SurfZ(fr, side) ==
    LET zs == {fr.atoms[k].z : k \in SurfaceAtoms(fr)}
    IN  IF side = "upper"
        THEN CHOOSE z \in zs : \A y \in zs : y <= z
        ELSE CHOOSE z \in zs : \A y \in zs : y >= z

\* One side's result: <<vertices, faces>>.
Extract(fr, side) ==
    << [frame |-> fr.index, side |-> side, z |-> SurfZ(fr, side)],
       [frame |-> fr.index, side |-> side] >>

FindIsosurfaces(fr) == << Extract(fr, "upper"), Extract(fr, "lower") >>

\* ----------------------------------------------------------- calc_profiles

\* Bin holding distance d under the closed-open convention; 0 when d is
\* outside every bin.
BinOf(d) ==
    IF \E b \in Bins : BinEdges[b] <= d /\ d < BinEdges[b + 1]
    THEN CHOOSE b \in Bins : BinEdges[b] <= d /\ d < BinEdges[b + 1]
    ELSE 0

Distance(atom, surf, sign) == sign * (surf[1].z - atom.z)

RECURSIVE SumCos(_, _)
SumCos(atoms, ks) ==
    IF ks = {} THEN 0
    ELSE LET k == CHOOSE x \in ks : TRUE
         IN  atoms[k].cos + SumCos(atoms, ks \ {k})

\* The histograms one frame adds for species s against surface surf.
FrameHist(fr, surf, s, sign) ==
    LET hit(b) == {k \in 1..Len(fr.atoms) :
                     /\ fr.atoms[k].sp = s
                     /\ BinOf(Distance(fr.atoms[k], surf, sign)) = b}
    IN  [conc   |-> [b \in Bins |-> Cardinality(hit(b))],
         cosine |-> [b \in Bins |-> SumCos(fr.atoms, hit(b))]]

AddEntry(entry, H) ==
    IF entry.type = "dict"
    THEN [entry EXCEPT !.conc = AddArr(@, H.conc),
                       !.cosine = AddArr(@, H.cosine)]
    ELSE [entry EXCEPT !.arr = AddArr(@, H.conc)]

\* calc_profiles(frame, surface, params, label, sign, layers): the value of
\* params after the call.
CalcProfiles(fr, surf, p, label, sign) ==
    [p EXCEPT !.data = [s \in Species |->
        [@[s] EXCEPT ![label] = AddEntry(@, FrameHist(fr, surf, s, sign))]]]

\* ------------------------------------------------------------------- state

Init ==
    /\ traj \in UNION {[1..n -> FrameKinds] : n \in 0..MaxFrames}
    /\ nskip \in 0..MaxSkip
    /\ nskip <= Len(traj)
    /\ \E orient \in SUBSET Species : params = Initialize(traj, nskip, orient)
    /\ upperS = <<>>
    /\ lowerS = <<>>
    /\ cnt = 0
    /\ nextI = 0
    /\ i = -1
    /\ frame = NoFrame
    /\ upper = NoSurface
    /\ lower = NoSurface
    /\ pc = "start"
    /\ loopExit = "running"
    /\ log = <<>>

\* ------------------------------------------------------- the frame loop

InBody == pc \in {"load", "find", "appU", "appL", "calcU", "calcL", "inc"}

\* upperS = []; lowerS = []; cnt = 0
StartLoop ==
    /\ pc = "start"
    /\ upperS' = <<>>
    /\ lowerS' = <<>>
    /\ cnt' = 0
    /\ nextI' = 0
    /\ pc' = "for"
    /\ UNCHANGED <<traj, nskip, params, i, frame, upper, lower, loopExit, log>>

\* for i in range(0, params['n_frames']): the next index
ForEnter ==
    /\ pc = "for"
    /\ nextI < params.n_frames
    /\ i' = nextI
    /\ nextI' = nextI + 1
    /\ pc' = "load"
    /\ UNCHANGED <<traj, nskip, params, upperS, lowerS, cnt, frame, upper,
                   lower, loopExit, log>>

\* for i in range(0, params['n_frames']): the range is exhausted
ForExit ==
    /\ pc = "for"
    /\ nextI >= params.n_frames
    /\ pc' = "done"
    /\ loopExit' = "completed"
    /\ UNCHANGED <<traj, nskip, params, upperS, lowerS, cnt, nextI, i, frame,
                   upper, lower, log>>

\* frame = md.load_frame('data/waterNaSCN.xtc', index=i, top=top)
LoadFrameStep ==
    /\ pc = "load"
    /\ i < Len(traj)
    /\ frame' = LoadFrame(traj, i)
    /\ log' = Append(log, [op |-> "load", frame |-> i])
    /\ pc' = "find"
    /\ UNCHANGED <<traj, nskip, params, upperS, lowerS, cnt, nextI, i, upper,
                   lower, loopExit>>

\* upper, lower = find_isosurfaces(frame, params): both surfaces found
FindOk ==
    /\ pc = "find"
    /\ HasCrossing(frame)
    /\ upper' = FindIsosurfaces(frame)[1]
    /\ lower' = FindIsosurfaces(frame)[2]
    /\ log' = Append(log, [op |-> "find", frame |-> frame.index])
    /\ pc' = "appU"
    /\ UNCHANGED <<traj, nskip, params, upperS, lowerS, cnt, nextI, i, frame,
                   loopExit>>

\* upper, lower = find_isosurfaces(frame, params): the extractor fails with
\* NoCrossing; the loop has no handler, so the cell ends with the error.
FindNoCrossing ==
    /\ pc = "find"
    /\ ~HasCrossing(frame)
    /\ log' = Append(log, [op |-> "find", frame |-> frame.index])
    /\ pc' = "raised"
    /\ loopExit' = "raised"
    /\ UNCHANGED <<traj, nskip, params, upperS, lowerS, cnt, nextI, i, frame,
                   upper, lower>>

\* upperS.append(upper[0])
AppendUpper ==
    /\ pc = "appU"
    /\ upperS' = Append(upperS, upper[1])
    /\ pc' = "appL"
    /\ UNCHANGED <<traj, nskip, params, lowerS, cnt, nextI, i, frame, upper,
                   lower, loopExit, log>>

AppendLowerCopied ==
    /\ pc = "appL"
    /\ lowerS' = Append(lowerS, upper[1])
    /\ pc' = "calcU"
    /\ UNCHANGED <<traj, nskip, params, upperS, cnt, nextI, i, frame, upper,
                   lower, loopExit, log>>

\* lowerS.append(lower[0])
AppendLower ==
    /\ pc = "appL"
    /\ lowerS' = Append(lowerS, lower[1])
    /\ pc' = "calcU"
    /\ UNCHANGED <<traj, nskip, params, upperS, cnt, nextI, i, frame, upper,
                   lower, loopExit, log>>

CalcUpperFresh ==
    /\ pc = "calcU"
    /\ params' = CalcProfiles(frame, upper,
                              [params EXCEPT !.data =
                                 Initialize(traj, nskip,
                                    {s \in Species :
                                       params.data[s]["upper"].type = "dict"}).data],
                              "upper", 1)
    /\ log' = Append(log, [op |-> "calc", frame |-> frame.index,
                           label |-> "upper", surf |-> upper[1]])
    /\ pc' = "calcL"
    /\ UNCHANGED <<traj, nskip, upperS, lowerS, cnt, nextI, i, frame, upper,
                   lower, loopExit>>

\* calc_profiles(frame, upper, params, label='upper', sign=1, layers=...)
CalcUpper ==
    /\ pc = "calcU"
    /\ params' = CalcProfiles(frame, upper, params, "upper", 1)
    /\ log' = Append(log, [op |-> "calc", frame |-> frame.index,
                           label |-> "upper", surf |-> upper[1]])
    /\ pc' = "calcL"
    /\ UNCHANGED <<traj, nskip, upperS, lowerS, cnt, nextI, i, frame, upper,
                   lower, loopExit>>

CalcLowerStale ==
    /\ pc = "calcL"
    /\ params' = CalcProfiles(frame, <<lowerS[1]>>, params, "lower", -1)
    /\ log' = Append(log, [op |-> "calc", frame |-> frame.index,
                           label |-> "lower", surf |-> lowerS[1]])
    /\ pc' = "inc"
    /\ UNCHANGED <<traj, nskip, upperS, lowerS, cnt, nextI, i, frame, upper,
                   lower, loopExit>>

\* calc_profiles(frame, lower, params, label='lower', sign=-1, layers=...)
CalcLower ==
    /\ pc = "calcL"
    /\ params' = CalcProfiles(frame, lower, params, "lower", -1)
    /\ log' = Append(log, [op |-> "calc", frame |-> frame.index,
                           label |-> "lower", surf |-> lower[1]])
    /\ pc' = "inc"
    /\ UNCHANGED <<traj, nskip, upperS, lowerS, cnt, nextI, i, frame, upper,
                   lower, loopExit>>

IncCntIndex ==
    /\ pc = "inc"
    /\ cnt' = i
    /\ pc' = "for"
    /\ UNCHANGED <<traj, nskip, params, upperS, lowerS, nextI, i, frame, upper,
                   lower, loopExit, log>>

\* cnt += 1
IncCnt ==
    /\ pc = "inc"
    /\ cnt' = cnt + 1
    /\ pc' = "for"
    /\ UNCHANGED <<traj, nskip, params, upperS, lowerS, nextI, i, frame, upper,
                   lower, loopExit, log>>

\* The kernel is interrupted while the loop cell runs (KeyboardInterrupt
\* between two statements of the body): the cell ends where it stands.
Interrupt ==
    /\ InBody
    /\ pc' = "interrupted"
    /\ loopExit' = "interrupted"
    /\ UNCHANGED <<traj, nskip, params, upperS, lowerS, cnt, nextI, i, frame,
                   upper, lower, log>>

\* ------------------------------------------------------ normalization cell

NormalizeEntryUpperTwice(atomdata, c) ==
    IF atomdata["upper"].type = "dict"
    THEN [atomdata EXCEPT !["upper"].conc = DivArr(@, c),
                          !["lower"].conc = DivArr(@, c),
                          !["upper"].cosine = DivArr(DivArr(@, c), c)]
    ELSE [atomdata EXCEPT !["upper"].arr = DivArr(@, c),
                          !["lower"].arr = DivArr(@, c)]

NormalizeEntryPerSide(atomdata, c) ==
    [side \in Sides |->
        IF atomdata["upper"].type = "dict"
        THEN IF side = "upper"
             THEN [atomdata[side] EXCEPT !.conc = DivArr(@, c),
                                         !.cosine = DivArr(@, c)]
             ELSE [atomdata[side] EXCEPT !.conc = DivArr(@, c)]
        ELSE [atomdata[side] EXCEPT !.arr = DivArr(@, c)]]

\* The body of the loop over params['data'].values(): one species' entry
\* after the divisions, the branch chosen by the type of its 'upper' entry.
NormalizeEntry(atomdata, c) ==
    IF atomdata["upper"].type = "dict"
    THEN [atomdata EXCEPT !["upper"].conc = DivArr(@, c),
                          !["lower"].conc = DivArr(@, c),
                          !["upper"].cosine = DivArr(@, c),
                          !["lower"].cosine = DivArr(@, c)]
    ELSE [atomdata EXCEPT !["upper"].arr = DivArr(@, c),
                          !["lower"].arr = DivArr(@, c)]

\* The normalization cell, run once the loop cell has ended.
Normalize ==
    /\ pc \in {"done", "raised", "interrupted"}
    /\ params' = [params EXCEPT !.data =
                    [s \in Species |-> NormalizeEntry(@[s], cnt)]]
    /\ pc' = "normalized"
    /\ UNCHANGED <<traj, nskip, upperS, lowerS, cnt, nextI, i, frame, upper,
                   lower, loopExit, log>>

Next ==
    \/ StartLoop
    \/ ForEnter
    \/ ForExit
    \/ LoadFrameStep
    \/ FindOk
    \/ FindNoCrossing
    \/ AppendUpper
    \/ AppendLower
    \/ CalcUpper
    \/ CalcLower
    \/ IncCnt
    \/ Interrupt
    \/ Normalize

Spec == Init /\ [][Next]_vars

\* ------------------------------------------------- what a run accumulated

Sign(label) == IF label = "upper" THEN 1 ELSE -1

Events(op) == {k \in DOMAIN log : log[k].op = op}

\* Frames whose calc_profiles call for `label` has completed.
CalcFrames(label) ==
    {log[k].frame : k \in {e \in Events("calc") : log[e].label = label}}

Completed == CalcFrames("upper") \cap CalcFrames("lower")

Calls(op, j) == Cardinality({k \in Events(op) : log[k].frame = j})

IsOrient(s) == params.data[s]["upper"].type = "dict"

ConcArr(s, side) ==
    IF params.data[s][side].type = "dict"
    THEN params.data[s][side].conc
    ELSE params.data[s][side].arr

Arrays(s, side) ==
    IF params.data[s][side].type = "dict"
    THEN {params.data[s][side].conc, params.data[s][side].cosine}
    ELSE {params.data[s][side].arr}

\* The surface of side `label` extracted from frame j itself.
OwnSurface(j, label) == Extract(LoadFrame(traj, j), label)

\* What frame j adds to the histograms of species s on side `label`.
Contribution(j, s, label) ==
    FrameHist(LoadFrame(traj, j), OwnSurface(j, label), s, Sign(label))

RECURSIVE SumOver(_, _, _, _, _)
SumOver(js, s, label, field, b) ==
    IF js = {} THEN 0
    ELSE LET j == CHOOSE x \in js : TRUE
         IN  Contribution(j, s, label)[field][b]
             + SumOver(js \ {j}, s, label, field, b)

\* An accumulator of the run's shape holding nothing.
EmptyParams ==
    Initialize(traj, nskip, {s \in Species : IsOrient(s)})

\* An independent accumulator fed frame j alone.
Alone(j) ==
    LET fr == LoadFrame(traj, j)
    IN  CalcProfiles(fr, OwnSurface(j, "lower"),
                     CalcProfiles(fr, OwnSurface(j, "upper"), EmptyParams,
                                  "upper", 1),
                     "lower", -1).data

MergeArr(A, B) ==
    [vals |-> [b \in Bins |-> A.vals[b] + B.vals[b]], divs |-> A.divs]

MergeEntry(e, f) ==
    IF e.type = "dict"
    THEN [type |-> "dict", conc |-> MergeArr(e.conc, f.conc),
          cosine |-> MergeArr(e.cosine, f.cosine)]
    ELSE [type |-> "ndarray", arr |-> MergeArr(e.arr, f.arr)]

MergeData(d, e) ==
    [s \in Species |-> [side \in Sides |-> MergeEntry(d[s][side], e[s][side])]]

Orders(S) ==
    {f \in [1..Cardinality(S) -> S] :
        \A x, y \in 1..Cardinality(S) : x # y => f[x] # f[y]}

RECURSIVE MergeInOrder(_, _)
MergeInOrder(f, n) ==
    IF n = 0 THEN EmptyParams.data
    ELSE MergeData(MergeInOrder(f, n - 1), Alone(f[n]))

RECURSIVE MergeFromRight(_, _, _)
MergeFromRight(f, n, len) ==
    IF n > len THEN EmptyParams.data
    ELSE MergeData(Alone(f[n]), MergeFromRight(f, n + 1, len))

\* Frames of the loop's range in which the isovalue is crossed.
CrossingFrames ==
    {j \in 0..(params.n_frames - 1) : HasCrossing(LoadFrame(traj, j))}

\* ------------------------------------------------------------------ claims

\* C1: after the frame loop and the normalization step every profile equals
\* the histogram accumulated over the frames that have a surface, divided by
\* the number of frames of the loop's range, frames without a surface
\* included in the divisor and adding nothing.
C1_DilutedByAllFrames ==
    (pc = "normalized" /\ loopExit # "interrupted" /\ params.n_frames >= 1) =>
        \A s \in Species : \A side \in Sides : \A b \in Bins :
            /\ Prod(ConcArr(s, side).divs) # 0
            /\ ConcArr(s, side).vals[b] * params.n_frames
                 = SumOver(CrossingFrames, s, side, "conc", b)
                   * Prod(ConcArr(s, side).divs)

\* C2: a NoCrossing in frame j does not end the loop: the loop goes on and,
\* once it is over, every later frame of the range has been loaded.
C2_NoCrossingRecovered ==
    \A k \in Events("find") :
        ~HasCrossing(LoadFrame(traj, log[k].frame)) =>
            /\ loopExit # "raised"
            /\ loopExit = "completed" =>
                 \A m \in (log[k].frame + 1)..(params.n_frames - 1) :
                     Calls("load", m) = 1

\* C3: after a cancellation the upper histograms, the lower histograms, the
\* surface lists and cnt all reflect the same set of frames.
C3_MergeAllOrNothing ==
    loopExit = "interrupted" =>
        /\ CalcFrames("upper") = CalcFrames("lower")
        /\ Cardinality(Completed) = cnt
        /\ Len(upperS) = cnt
        /\ Len(lowerS) = cnt

\* C4: find_isosurfaces is invoked at most once per frame and exactly once
\* for every frame whose profiles are accumulated, and every calc_profiles
\* call of frame j receives the surface extracted from frame j itself, of
\* the side it accumulates.
C4_SurfaceOfOwnFrame ==
    /\ \A j \in 0..(Len(traj) - 1) :
          /\ Calls("find", j) <= 1
          /\ Calls("load", j) <= 1
          /\ j \in CalcFrames("upper") \cup CalcFrames("lower") =>
                Calls("find", j) = 1
    /\ \A k \in Events("calc") :
          /\ log[k].surf.frame = log[k].frame
          /\ log[k].surf.side = log[k].label
          /\ log[k].surf = OwnSurface(log[k].frame, log[k].label)[1]

C4_Witness ==
    /\ pc = "inc"
    /\ frame.index = 1
    /\ Cardinality(Events("calc")) = 4

\* C5: at every iteration boundary both surface lists hold one entry per
\* completed iteration, entry j being the surface extracted from frame j,
\* and after a completed loop both hold one entry per processed frame.
C5_SurfaceLists ==
    (pc = "for" \/ loopExit = "completed") =>
        /\ Len(upperS) = nextI
        /\ Len(lowerS) = nextI
        /\ \A k \in 1..Len(upperS) : upperS[k] = OwnSurface(k - 1, "upper")[1]
        /\ \A k \in 1..Len(lowerS) : lowerS[k] = OwnSurface(k - 1, "lower")[1]
        /\ loopExit = "completed" =>
              /\ Len(upperS) = Cardinality(Events("load"))
              /\ Len(upperS) = params.n_frames

C5_Witness ==
    /\ loopExit = "completed"
    /\ Len(upperS) >= 2
    /\ Len(lowerS) >= 2

C7_SkipsFirstFrames ==
    /\ \A k \in DOMAIN log : log[k].frame >= nskip
    /\ \A k \in 1..Len(upperS) : upperS[k].frame >= nskip
    /\ \A k \in 1..Len(lowerS) : lowerS[k].frame >= nskip
    /\ loopExit = "completed" =>
          /\ cnt = Len(traj) - nskip
          /\ \A j \in nskip..(Len(traj) - 1) :
                /\ Calls("load", j) = 1
                /\ Calls("find", j) = 1
                /\ Calls("calc", j) = 2

C9_DividedExactlyOnce ==
    \A s \in Species : \A side \in Sides :
        /\ params.data[s][side].type = params.data[s]["upper"].type
        /\ \A A \in Arrays(s, side) :
              IF pc = "normalized" THEN A.divs = <<cnt>> ELSE A.divs = <<>>

C9_Witness ==
    /\ pc = "normalized"
    /\ cnt = 2
    /\ \E s \in Species : IsOrient(s)
    /\ \E s \in Species : ~IsOrient(s)

\* C10: at every iteration boundary cnt is the number of frames for which
\* both calc_profiles calls have completed; after a completed loop cnt is
\* n_frames, so the divisor of the normalization is positive when
\* n_frames >= 1 and zero exactly when n_frames = 0.
C10_FrameCounter ==
    /\ pc = "for" => cnt = Cardinality(Completed)
    /\ loopExit = "completed" =>
          /\ cnt = params.n_frames
          /\ cnt = Cardinality(Completed)
          /\ pc = "normalized" =>
                \A s \in Species : \A side \in Sides :
                  \A A \in Arrays(s, side) :
                    /\ A.divs = <<params.n_frames>>
                    /\ params.n_frames >= 1 => Prod(A.divs) > 0
                    /\ params.n_frames = 0 <=> Prod(A.divs) = 0

C10_Witness ==
    /\ pc = "normalized"
    /\ loopExit = "completed"
    /\ cnt = 2
====
